---- MODULE Spec2Model ----
(***************************************************************************)
(* A model of runwith: the Assets lifecycle on a shared filesystem,        *)
(* prepare(), Runner.run(), SlurmRunner.run(), SlurmRunner.submit(),       *)
(* JobGroup.submit_all() and SlurmOptions.to_dict().                       *)
(***************************************************************************)
EXTENDS Integers, Sequences, FiniteSets, TLC

VARIABLES
    runs,       \* per invocation: the runner's fields and the position in run()/submit()
    dirs,       \* filesystem: the working directories that exist
    files,      \* filesystem: path -> content, for the files that exist
    jobs,       \* JobGroup.jobs: indices into runs, in insertion order
    job_ids,    \* submit_all: the identifiers collected so far
    reports,    \* submit_all: the lines printed by its reporting loop
    gpc,        \* submit_all: position
    given,      \* SlurmOptions: the keyword arguments of the constructor call
    options,    \* SlurmOptions: the instance's fields
    arguments,  \* simple_slurm.Slurm: the arguments added by SlurmRunner.__init__
    opc         \* SlurmOptions: position

vars == <<runs, dirs, files, jobs, job_ids, reports, gpc,
          given, options, arguments, opc>>

groupVars == <<jobs, job_ids, reports, gpc>>
optionVars == <<given, options, arguments, opc>>
runVars == <<runs, dirs, files>>

----------------------------------------------------------------------------
\* Bounds

MaxInv == 2          \* concurrent invocations of run()/submit()

Inv == 1..MaxInv
Idents == {"aaaaaaaaaa", "bbbbbbbbbb"}   \* values random_name() may return
FuncNames == {"f", "g"}                  \* func.__name__
NoIdent == "none"

----------------------------------------------------------------------------
\* Paths and file contents

Suffixes == {"target", "dump", "ret", "exec", "log"}

\* a working directory whose name leaves out the random identifier
WorkDirShared(ident) == "runwith"

\* Path(f"runwith_{random_name()}", func.__name__).parent
WorkDir(ident) == ident

\* base.with_suffix(...) for the five tracked files
AssetPath(ident, func, suffix) ==
    [dir |-> WorkDir(ident), stem |-> func, suffix |-> suffix]

AssetPaths(ident, func) == {AssetPath(ident, func, s) : s \in Suffixes}

\* a file of the working directory that is none of the five tracked ones
UntrackedPath(ident) == [dir |-> WorkDir(ident), stem |-> "extra", suffix |-> "out"]

Exists(fs, p) == p \in DOMAIN fs

WriteFile(fs, p, c) == [q \in DOMAIN fs \cup {p} |-> IF q = p THEN c ELSE fs[q]]

Unlink(fs, ps) == [q \in DOMAIN fs \ ps |-> fs[q]]

DirEmpty(fs, d) == \A q \in DOMAIN fs : q.dir # d

Pickle(i) == [type |-> "pickle", owner |-> i, refs |-> {}]
Corrupt(i) == [type |-> "corrupt", owner |-> i, refs |-> {}]
Script(i, refs) == [type |-> "script", owner |-> i, refs |-> refs]
Other(i) == [type |-> "other", owner |-> i, refs |-> {}]

\* str.format: every placeholder of the template is replaced by its argument
Format(template, kwargs) == {kwargs[p] : p \in template}

TARGET_TEMPLATE == {"pickle_path", "ret_path"}
EXEC_TEMPLATE == {"target"}

----------------------------------------------------------------------------
\* Assets

\* Assets.cleanup: unlink the five files that exist, then rmdir the parent if it
\* exists; rmdir raises OSError on a directory that is not empty.
CleanupFiles(fs, ident, func) == Unlink(fs, AssetPaths(ident, func))

CleanupRaises(fs, ds, ident, func) ==
    /\ WorkDir(ident) \in ds
    /\ ~DirEmpty(CleanupFiles(fs, ident, func), WorkDir(ident))

CleanupDirs(fs, ds, ident, func) ==
    IF WorkDir(ident) \in ds /\ ~CleanupRaises(fs, ds, ident, func)
    THEN ds \ {WorkDir(ident)}
    ELSE ds

----------------------------------------------------------------------------
\* Runner invocations

Kinds == {"Runner", "SlurmRun", "SlurmSubmit"}

MaxJobId == 2        \* identifiers the scheduler may assign
JobIds == 1..MaxJobId

\* Runner.__init__ / SlurmRunner.__init__: the fields of a runner, and the position
\* of its run()/submit() call before it starts
NewRun(kind, func, verbose, ttpl, etpl) ==
    [kind |-> kind, func |-> func, verbose |-> verbose,
     target_template |-> ttpl, exec_template |-> etpl,
     pc |-> "idle", ident |-> NoIdent, prepared |-> FALSE, echoed |-> FALSE,
     backend |-> FALSE, child |-> "none", load |-> "none", result |-> 0, exc |-> "none",
     cleanups |-> 0, cleanup_raised |-> FALSE, finalized |-> FALSE, job_id |-> 0]

\* InterpreterRunner and SlurmRunner pass TARGET_TEMPLATE; a base Runner takes any
RunInputs ==
    {NewRun(k, f, v, tt, et) :
        k \in Kinds, f \in FuncNames, v \in BOOLEAN,
        tt \in SUBSET TARGET_TEMPLATE, et \in SUBSET EXEC_TEMPLATE}

ValidInput(r) == r.kind # "Runner" => r.target_template = TARGET_TEMPLATE

\* prepare's three assertions
TemplatesValid(ttpl, etpl) ==
    /\ "pickle_path" \in ttpl
    /\ "ret_path" \in ttpl
    /\ "target" \in etpl

\* the arguments each caller passes to prepare
PrepareTargetTemplate(r) ==
    IF r.kind = "SlurmSubmit" THEN TARGET_TEMPLATE ELSE r.target_template

PrepareExecTemplate(r) ==
    IF r.kind = "SlurmSubmit" THEN EXEC_TEMPLATE ELSE r.exec_template

PrepareVerbose(r) ==
    IF r.kind = "Runner" THEN r.verbose ELSE TRUE

\* the files prepare writes: dump, target script, exec script
PreparedFiles(fs, i, ident, func, ttpl, etpl) ==
    LET dump == AssetPath(ident, func, "dump")
        ret == AssetPath(ident, func, "ret")
        target == AssetPath(ident, func, "target")
        exec == AssetPath(ident, func, "exec")
        f1 == WriteFile(fs, dump, Pickle(i))
        f2 == WriteFile(f1, target,
                Script(i, Format(ttpl, [pickle_path |-> dump, ret_path |-> ret])))
    IN WriteFile(f2, exec, Script(i, Format(etpl, [target |-> target])))

\* submit: sh_script = exec_template.format(target=...); assets.exec.write_text
SubmitFiles(fs, i, ident, func, etpl) ==
    WriteFile(fs, AssetPath(ident, func, "exec"),
              Script(i, Format(etpl, [target |-> AssetPath(ident, func, "target")])))

\* a call of run()/submit() that is over
Done(r) == r.pc \in {"returned", "raised"}

\* a submit() without its except clause
RaiseUncaught(r, e) == [r EXCEPT !.pc = "raised", !.exc = e]

\* an exception leaving run() reaches the caller; submit() catches it
Raise(r, e) ==
    IF r.kind = "SlurmSubmit"
    THEN [r EXCEPT !.pc = "returned", !.exc = e, !.job_id = -1]
    ELSE [r EXCEPT !.pc = "raised", !.exc = e]

\* the call of prepare() that opens run() and submit()
Prepare(i) ==
    LET r == runs[i]
        ttpl == PrepareTargetTemplate(r)
        etpl == PrepareExecTemplate(r)
    IN
    /\ r.pc = "idle"
    /\ UNCHANGED <<groupVars, optionVars>>
    /\ IF ~TemplatesValid(ttpl, etpl)
       THEN /\ runs' = [runs EXCEPT ![i] = Raise(r, "AssertionError")]
            /\ UNCHANGED <<dirs, files>>
       ELSE \E ident \in Idents, picklable \in BOOLEAN :
            /\ dirs' = dirs \cup {WorkDir(ident)}
            /\ IF ~picklable
               THEN /\ files' = files
                    /\ runs' = [runs EXCEPT ![i] =
                                  Raise([r EXCEPT !.ident = ident], "PicklingError")]
               ELSE /\ files' =
                         IF r.kind = "SlurmSubmit"
                         THEN SubmitFiles(
                                PreparedFiles(files, i, ident, r.func, ttpl, etpl),
                                i, ident, r.func, r.exec_template)
                         ELSE PreparedFiles(files, i, ident, r.func, ttpl, etpl)
                    /\ runs' = [runs EXCEPT ![i] =
                                  [r EXCEPT !.ident = ident, !.prepared = TRUE,
                                            !.echoed = PrepareVerbose(r),
                                            !.pc = "prepared"]]

\* whether running the exec script reaches the entry script and that one can load
\* the dump and write the result
CanProduce(fs, ident, func) ==
    LET dump == AssetPath(ident, func, "dump")
        ret == AssetPath(ident, func, "ret")
        target == AssetPath(ident, func, "target")
        exec == AssetPath(ident, func, "exec")
    IN /\ Exists(fs, exec) /\ target \in fs[exec].refs
       /\ Exists(fs, target) /\ {dump, ret} \subseteq fs[target].refs
       /\ Exists(fs, dump) /\ fs[dump].type = "pickle"

\* what the child process leaves behind: a result file (valid or truncated) or none,
\* and possibly a file of its own in the working directory
ChildFiles(fs, i, ident, func, ret, extra) ==
    LET f1 == IF ret = "valid"
              THEN WriteFile(fs, AssetPath(ident, func, "ret"),
                             Pickle(fs[AssetPath(ident, func, "dump")].owner))
              ELSE IF ret = "corrupt"
              THEN WriteFile(fs, AssetPath(ident, func, "ret"), Corrupt(i))
              ELSE fs
    IN IF extra THEN WriteFile(f1, UntrackedPath(ident), Other(i)) ELSE f1

RetOutcomes(fs, ident, func) ==
    IF CanProduce(fs, ident, func) THEN {"valid", "corrupt", "missing"} ELSE {"missing"}

\* Runner.run: sh.Command(assets.exec)(...), which raises on a non-zero exit status
\* SlurmRunner.run: self.slurm.srun(str(assets.exec)), which returns or raises
Launch(i) ==
    LET r == runs[i] IN
    /\ r.pc = "prepared"
    /\ r.kind \in {"Runner", "SlurmRun"}
    /\ UNCHANGED <<dirs, groupVars, optionVars>>
    /\ IF ~Exists(files, AssetPath(r.ident, r.func, "exec")) /\ r.kind = "Runner"
       THEN /\ runs' = [runs EXCEPT ![i] = Raise(r, "CommandNotFound")]
            /\ UNCHANGED files
       ELSE \E ret \in RetOutcomes(files, r.ident, r.func),
               extra \in BOOLEAN, status \in {"returns", "raises"} :
            /\ WorkDir(r.ident) \in dirs \/ (ret = "missing" /\ ~extra)
            /\ files' = ChildFiles(files, i, r.ident, r.func, ret, extra)
            /\ runs' = [runs EXCEPT ![i] =
                 IF status = "raises"
                 THEN Raise([r EXCEPT !.backend = TRUE, !.child = ret],
                            IF r.kind = "Runner" THEN "ErrorReturnCode"
                                                 ELSE "SrunError")
                 ELSE [r EXCEPT !.backend = TRUE, !.child = ret, !.pc = "launched"]]

\* cloudpickle.loads(assets.ret.read_bytes())
LoadError(fs, ident, func) ==
    LET ret == AssetPath(ident, func, "ret") IN
    IF ~Exists(fs, ret) THEN "FileNotFoundError"
    ELSE IF fs[ret].type # "pickle" THEN "UnpicklingError"
    ELSE "none"

\* a call of assets.cleanup() recorded on the runner
Cleaned(r, raises) ==
    [r EXCEPT !.cleanups = @ + 1, !.cleanup_raised = @ \/ raises]

\* Runner.run: try: loads except: cleanup(); raise e -- then cleanup(); return ret
RunnerFinish(r, err, raises, value) ==
    IF raises THEN Raise(Cleaned(r, TRUE), "OSError")
    ELSE IF err # "none" THEN Raise(Cleaned(r, FALSE), err)
    ELSE [Cleaned(r, FALSE) EXCEPT !.pc = "returned", !.result = value]

\* SlurmRunner.run: ret = load_return(assets.ret); assets.cleanup(); return ret
SlurmFinish(r, err, raises, value) ==
    IF err # "none" THEN Raise(r, err)
    ELSE IF raises THEN Raise(Cleaned(r, TRUE), "OSError")
    ELSE [Cleaned(r, FALSE) EXCEPT !.pc = "returned", !.result = value]

\* the rest of run() after the backend returned
Finish(i) ==
    LET r == runs[i]
        err == LoadError(files, r.ident, r.func)
        raises == CleanupRaises(files, dirs, r.ident, r.func)
        value == IF err = "none" THEN files[AssetPath(r.ident, r.func, "ret")].owner
                 ELSE 0
        loaded == [r EXCEPT !.load = IF err = "none" THEN "ok" ELSE "failed"]
        cleans == r.kind = "Runner" \/ err = "none"
    IN
    /\ r.pc = "launched"
    /\ UNCHANGED <<groupVars, optionVars>>
    /\ runs' = [runs EXCEPT ![i] =
                  IF r.kind = "Runner" THEN RunnerFinish(loaded, err, raises, value)
                  ELSE SlurmFinish(loaded, err, raises, value)]
    /\ files' = IF cleans THEN CleanupFiles(files, r.ident, r.func) ELSE files
    /\ dirs' = IF cleans THEN CleanupDirs(files, dirs, r.ident, r.func) ELSE dirs

\* the identifier submit() returns: sbatch's, or -1 when the try block raised
SubmitResult(raised, id) == IF raised THEN -1 ELSE id

\* SlurmRunner.submit: job_id = self.slurm.sbatch(str(assets.exec)); return job_id
Sbatch(i) ==
    LET r == runs[i] IN
    /\ r.pc = "prepared"
    /\ r.kind = "SlurmSubmit"
    /\ UNCHANGED <<dirs, files, groupVars, optionVars>>
    /\ \E raised \in BOOLEAN, id \in JobIds :
         runs' = [runs EXCEPT ![i] =
                    [r EXCEPT !.backend = TRUE, !.pc = "returned",
                              !.exc = IF raised THEN "SbatchError" ELSE "none",
                              !.job_id = SubmitResult(raised, id)]]

\* Assets.__del__, once the Assets object of a finished call is collected
Finalize(i) ==
    LET r == runs[i]
        calls == WorkDir(r.ident) \in dirs
        raises == CleanupRaises(files, dirs, r.ident, r.func)
    IN
    /\ r.pc \in {"returned", "raised"}
    /\ r.ident # NoIdent
    /\ ~r.finalized
    /\ UNCHANGED <<groupVars, optionVars>>
    /\ runs' = [runs EXCEPT ![i] =
                  IF calls THEN [Cleaned(r, raises) EXCEPT !.finalized = TRUE]
                  ELSE [r EXCEPT !.finalized = TRUE]]
    /\ files' = IF calls THEN CleanupFiles(files, r.ident, r.func) ELSE files
    /\ dirs' = IF calls THEN CleanupDirs(files, dirs, r.ident, r.func) ELSE dirs

NoFiles == [p \in {} |-> Other(0)]

Init ==
    /\ runs \in {rs \in [Inv -> RunInputs] : \A i \in Inv : ValidInput(rs[i])}
    /\ dirs = {}
    /\ files = NoFiles
    /\ jobs = <<>> /\ job_ids = <<>> /\ reports = <<>> /\ gpc = "off"
    /\ given = NoFiles /\ options = NoFiles /\ arguments = NoFiles /\ opc = "off"

Next ==
    \/ \E i \in DOMAIN runs : Prepare(i)
    \/ \E i \in DOMAIN runs : Launch(i)
    \/ \E i \in DOMAIN runs : Finish(i)
    \/ \E i \in DOMAIN runs : Sbatch(i)
    \/ \E i \in DOMAIN runs : Finalize(i)

Spec == Init /\ [][Next]_vars

----------------------------------------------------------------------------
\* JobGroup

MaxJobs == 3         \* members of a job group

\* the runners a group is given: SlurmRunner instances, of any function, with the
\* default launcher template and the default verbose
GroupInputs ==
    {r \in RunInputs :
        /\ r.kind = "SlurmSubmit" /\ ValidInput(r)
        /\ r.exec_template = EXEC_TEMPLATE /\ r.verbose}

\* JobGroup.add_job, before submit_all is called
add_job ==
    /\ gpc = "adding"
    /\ Len(jobs) < MaxJobs
    /\ \E job \in GroupInputs :
         /\ runs' = Append(runs, job)
         /\ jobs' = Append(jobs, Len(runs) + 1)
    /\ UNCHANGED <<dirs, files, job_ids, reports, gpc, optionVars>>

\* the call of submit_all
submit_all ==
    /\ gpc = "adding"
    /\ gpc' = IF Len(jobs) = 0 THEN "reporting" ELSE "submitting"
    /\ UNCHANGED <<runs, dirs, files, jobs, job_ids, reports, optionVars>>

\* job_ids = [job.submit() for job in self.jobs]: the job whose submit() is running
CurrentJob == jobs[Len(job_ids) + 1]

\* the steps of the running job.submit(); its local Assets object is released, and
\* so finalized, when the call returns
SubmitPrepare == gpc = "submitting" /\ Prepare(CurrentJob)

SubmitSbatch == gpc = "submitting" /\ Sbatch(CurrentJob)

SubmitFinalize == gpc = "submitting" /\ Finalize(CurrentJob)

\* job.submit() is over: its value joins the list, or its exception leaves submit_all
Collect ==
    LET r == runs[CurrentJob] IN
    /\ gpc = "submitting"
    /\ Done(r)
    /\ r.pc = "returned" => (r.ident = NoIdent \/ r.finalized)
    /\ IF r.pc = "raised"
       THEN /\ gpc' = "raised"
            /\ UNCHANGED job_ids
       ELSE /\ job_ids' = Append(job_ids, r.job_id)
            /\ gpc' = IF Len(job_ids') = Len(jobs) THEN "reporting" ELSE "submitting"
    /\ UNCHANGED <<runs, dirs, files, jobs, reports, optionVars>>

\* for i, job_id in enumerate(job_ids): print the failure or the identifier
Report ==
    /\ gpc = "reporting"
    /\ Len(reports) < Len(job_ids)
    /\ reports' = Append(reports,
                    IF job_ids[Len(reports) + 1] = -1 THEN "failed" ELSE "submitted")
    /\ UNCHANGED <<runs, dirs, files, jobs, job_ids, gpc, optionVars>>

\* return job_ids
Return ==
    /\ gpc = "reporting"
    /\ Len(reports) = Len(job_ids)
    /\ gpc' = "done"
    /\ UNCHANGED <<runs, dirs, files, jobs, job_ids, reports, optionVars>>

GroupInit ==
    /\ runs = <<>>
    /\ dirs = {}
    /\ files = NoFiles
    /\ jobs = <<>> /\ job_ids = <<>> /\ reports = <<>> /\ gpc = "adding"
    /\ given = NoFiles /\ options = NoFiles /\ arguments = NoFiles /\ opc = "off"

GroupNext ==
    \/ add_job
    \/ submit_all
    \/ SubmitPrepare
    \/ SubmitSbatch
    \/ SubmitFinalize
    \/ Collect
    \/ Report
    \/ Return

GroupSpec == GroupInit /\ [][GroupNext]_vars

----------------------------------------------------------------------------
\* SlurmOptions

None == "None"

\* some of the fields of SlurmOptions, by declared type
StrFields == {"account"}
IntFields == {"ntasks"}
BoolFields == {"contiguous", "hold", "wait", "verbose"}
Fields == StrFields \cup IntFields \cup BoolFields

\* the default of a field the caller does not give
Default(f) == IF f \in BoolFields THEN "False" ELSE None

FieldValues(f) ==
    IF f \in BoolFields THEN {"True", "False"}
    ELSE IF f \in IntFields THEN {"1", None}
    ELSE {"acct", None}

\* the keyword arguments a caller may pass
Kwargs ==
    {g \in UNION {[S -> {"True", "False", "1", "acct", None}] : S \in SUBSET Fields} :
        \A f \in DOMAIN g : g[f] \in FieldValues(f)}

\* SlurmOptions(**data): each field takes the given value or its default
Construct ==
    /\ opc = "new"
    /\ options' = [f \in Fields |-> IF f \in DOMAIN given THEN given[f] ELSE Default(f)]
    /\ opc' = "constructed"
    /\ UNCHANGED <<runVars, groupVars, given, arguments>>

\* SlurmOptions.to_dict
to_dict(o) ==
    LET kept == {k \in DOMAIN o : o[k] # None} IN [k \in kept |-> o[k]]

\* SlurmRunner.__init__: self.slurm.add_arguments(**self.options.to_dict())
AddArguments ==
    /\ opc = "constructed"
    /\ arguments' = to_dict(options)
    /\ opc' = "added"
    /\ UNCHANGED <<runVars, groupVars, given, options>>

OptionsInit ==
    /\ runs = <<>>
    /\ dirs = {}
    /\ files = NoFiles
    /\ jobs = <<>> /\ job_ids = <<>> /\ reports = <<>> /\ gpc = "off"
    /\ given \in Kwargs
    /\ options = NoFiles /\ arguments = NoFiles /\ opc = "new"

OptionsNext == Construct \/ AddArguments

OptionsSpec == OptionsInit /\ [][OptionsNext]_vars

----------------------------------------------------------------------------
\* Properties of run() and submit()

NothingLeft(r) ==
    /\ AssetPaths(r.ident, r.func) \cap DOMAIN files = {}
    /\ WorkDir(r.ident) \notin dirs

\* C1: for Runner.run, once the launcher ran and deserialization was attempted,
\* cleanup() has been invoked exactly once, a loaded result is returned, a
\* deserialization error is the exception re-raised, and the finalizer adds no
\* second cleanup.
C1_CleanupExactlyOnce ==
    \A i \in DOMAIN runs :
        LET r == runs[i] IN
        (r.kind = "Runner" /\ r.load # "none") =>
            /\ r.cleanups = 1
            /\ r.load = "ok" => (r.pc = "returned" /\ r.exc = "none")
            /\ r.load = "failed" =>
                 (r.pc = "raised" /\ r.exc \in {"FileNotFoundError", "UnpicklingError"})

\* C2: when the entry script never wrote the result file, Runner.run raises the
\* deserialization error (a non-zero exit is not itself an error) and, when the
\* exception reaches the caller, no artifact path and no working directory exists.
C2_NoResultRaisesClean ==
    \A i \in DOMAIN runs :
        LET r == runs[i] IN
        (r.kind = "Runner" /\ r.child = "missing" /\ Done(r) /\ ~r.finalized) =>
            /\ r.pc = "raised"
            /\ r.exc = "FileNotFoundError"
            /\ NothingLeft(r)

\* C3: SlurmRunner.run invokes cleanup() on every exit path after the assets were
\* prepared, so no artifact path exists when it returns or raises.
C3_SlurmRunCleansUp ==
    \A i \in DOMAIN runs :
        LET r == runs[i] IN
        (r.kind = "SlurmRun" /\ r.prepared /\ Done(r) /\ ~r.finalized) =>
            /\ r.cleanups = 1
            /\ NothingLeft(r)

\* C4: after submit() returned a scheduler job identifier, the dump, the entry
\* script, the launcher script and their working directory still exist.
C4_SubmittedAssetsRemain ==
    \A i \in DOMAIN runs :
        LET r == runs[i] IN
        (r.kind = "SlurmSubmit" /\ r.pc = "returned" /\ r.job_id \in JobIds) =>
            /\ {AssetPath(r.ident, r.func, s) : s \in {"dump", "target", "exec"}}
                  \subseteq DOMAIN files
            /\ WorkDir(r.ident) \in dirs

\* C6: an operation whose runner holds a template lacking a required placeholder
\* fails template validation before it creates the working directory or a file
\* and before it invokes a backend (stated for the calls whose function pickles,
\* so that the only error in play is the template's).
C6_BadTemplateCreatesNothing ==
    \A i \in DOMAIN runs :
        LET r == runs[i] IN
        (/\ ~TemplatesValid(r.target_template, r.exec_template)
         /\ r.pc # "idle"
         /\ r.exc # "PicklingError") =>
            /\ r.exc = "AssertionError"
            /\ r.ident = NoIdent
            /\ ~r.backend

\* C8: cleanup() never fails because of leftover content of the directory.
C8_CleanupNeverRaises ==
    \A i \in DOMAIN runs : ~runs[i].cleanup_raised

\* C10: preparation echoes the generated artifacts exactly when the runner's
\* verbose flag is set, for every runner variant and for run() and submit().
C10_EchoFollowsVerbose ==
    \A i \in DOMAIN runs :
        runs[i].prepared => (runs[i].echoed = runs[i].verbose)

\* an invocation between the creation of its Asset Set and the end of its call
Live(r) == r.prepared /\ r.pc \in {"prepared", "launched"}

\* C9 as stated: two invocations whose lifetimes overlap own disjoint working
\* directories.
C9_LiveDirsDisjoint ==
    \A i, j \in DOMAIN runs :
        (i # j /\ Live(runs[i]) /\ Live(runs[j])) =>
            WorkDir(runs[i].ident) # WorkDir(runs[j].ident)

\* C9 amended: an invocation whose random identifier differs from that of a live
\* invocation has a different working directory and other artifact paths, and no
\* step of it changes a file or the directory of the live invocation.
C9_DistinctIdentsIsolated ==
    [][\A i, j \in DOMAIN runs :
          (/\ i # j
           /\ runs'[i] # runs[i]
           /\ runs'[j] = runs[j]
           /\ Live(runs[j])
           /\ runs'[i].ident # NoIdent
           /\ runs'[i].ident # runs[j].ident) =>
              /\ WorkDir(runs'[i].ident) # WorkDir(runs[j].ident)
              /\ AssetPaths(runs'[i].ident, runs'[i].func)
                    \cap AssetPaths(runs[j].ident, runs[j].func) = {}
              /\ \A p \in AssetPaths(runs[j].ident, runs[j].func) :
                    /\ Exists(files', p) <=> Exists(files, p)
                    /\ Exists(files, p) => files'[p] = files[p]
              /\ WorkDir(runs[j].ident) \in dirs' <=> WorkDir(runs[j].ident) \in dirs
      ]_vars

\* two live invocations of the same function with different identifiers, one of
\* which has run its child process
C9_Witness ==
    \E i, j \in DOMAIN runs :
        /\ i # j
        /\ Live(runs[i]) /\ Live(runs[j])
        /\ runs[i].ident # runs[j].ident
        /\ runs[i].func = runs[j].func
        /\ runs[i].pc = "launched"

----------------------------------------------------------------------------
\* Properties of submit_all and to_dict

C7_OnlyGivenFields ==
    opc = "added" => DOMAIN arguments = {f \in DOMAIN given : given[f] # None}

====
